---- MODULE Spec2Model ----
(***************************************************************************)
(* Model of the MCP Jira server (src/src/main.py): the HTTP boundary       *)
(* handle_request / validate_request, the dispatcher handle_mcp_message    *)
(* and its seven command handlers, against an external Jira whose answers  *)
(* are nondeterministic.  One request is handled at a time; every external *)
(* API call is one step, so that the order of the calls is observable.     *)
(***************************************************************************)
EXTENDS Integers, Sequences, FiniteSets, TLC

(***************************************************************************)
(* Bounds of the model.                                                    *)
(***************************************************************************)
MaxRequests == 1        \* requests served in one behaviour
MaxTransitions == 2     \* transitions the API lists for an issue
MaxEpics == 2           \* epics the epic lookup returns (never above EpicLookupLimit)
MaxTotal == 3           \* largest `total` a search reports
MaxPage == 1            \* largest page number requested
MaxPageSize == 2        \* largest small page_size requested
CallFast == 1           \* seconds taken by a quick external call
CallSlow == 20          \* seconds taken by a slow external call

(***************************************************************************)
(* Program constants.                                                      *)
(***************************************************************************)
max_results == 50       \* JiraConfig.max_results
RequestTimeout == 30    \* asyncio.wait_for(..., timeout=30)
DefaultPage == 1        \* data.get('page', 1)
DefaultPageSize == 20   \* data.get('page_size', 20)
EpicLookupLimit == 5    \* search_issues(epic_jql, maxResults=5)

(***************************************************************************)
(* JSON values as the handlers see them after request.json().              *)
(***************************************************************************)
JStr(s) == [type |-> "str", val |-> s]
JInt(n) == [type |-> "int", val |-> n]
JBool(b) == [type |-> "bool", val |-> b]
None == [type |-> "null"]

\* Python ==
PyEq(a, b) ==
    IF a.type # b.type THEN FALSE
    ELSE IF a.type = "null" THEN TRUE
    ELSE a.val = b.val

\* Python truthiness, as used by `if not x` / `if x`
Truthy(v) ==
    CASE v.type = "null" -> FALSE
      [] v.type = "str"  -> v.val # ""
      [] v.type = "int"  -> v.val # 0
      [] v.type = "bool" -> v.val

\* dict.get(key, default)
Get(d, k, default) == IF k \in DOMAIN d THEN d[k] ELSE default

\* The strings that occur as status names, epic summaries and epic names.
LowerTable ==
    [Done |-> "done", DONE |-> "done", done |-> "done",
     Open |-> "open", open |-> "open",
     Alpha |-> "alpha", ALPHA |-> "alpha", alpha |-> "alpha",
     AlphaTwo |-> "alphatwo", alphatwo |-> "alphatwo"]

\* str.lower()
lower(s) == IF s \in DOMAIN LowerTable THEN LowerTable[s] ELSE s

\* int(x): the value, or the exception it raises
py_int(v) ==
    CASE v.type = "int"  -> [ok |-> TRUE, val |-> v.val]
      [] v.type = "bool" -> [ok |-> TRUE, val |-> IF v.val THEN 1 ELSE 0]
      [] v.type = "str"  ->
            IF v.val = "2" THEN [ok |-> TRUE, val |-> 2]
            ELSE [ok |-> FALSE, exc |-> "ValueError"]
      [] v.type = "null" -> [ok |-> FALSE, exc |-> "TypeError"]

Max(a, b) == IF a >= b THEN a ELSE b
Min(a, b) == IF a <= b THEN a ELSE b

(***************************************************************************)
(* Response envelopes and their messages.                                  *)
(***************************************************************************)
NoEnvelope == [status |-> "none"]
NoResponse == [http |-> 0]

Error(msg) == [status |-> "error", message |-> msg]
Success(data) == [status |-> "success", data |-> data]

\* an exception leaving a handler, in the place of its return value
Raise(exc) == [status |-> "raised", exc |-> exc]

\* str(e) of an exception caught by handle_mcp_message
ExcText(exc) == [text |-> "str(e)", exc |-> exc]

\* handle_mcp_message without its except clause
except_nothing(result) == result

\* the try/except of handle_mcp_message around the handler, lines 65-89
except_Exception(result) ==
    IF result.status = "raised" THEN Error(ExcText(result.exc)) ELSE result
Text(t) == [text |-> t]

(***************************************************************************)
(* The requests a client sends.                                            *)
(***************************************************************************)
Commands ==
    {"create_issue", "get_issue", "update_issue", "search_issues",
     "get_epic_with_subtasks", "get_my_issues", "get_transitions"}

StatusNames == {"Done", "Open"}              \* destination names the API lists
StatusInputs == {JStr("done"), JStr("DONE"), JStr("Open"), JStr("Blocked"), JInt(7)}
EpicSummaries == {"Alpha", "ALPHA", "AlphaTwo"}
EpicNameInputs == {JStr("alpha"), JStr("Alpha"), JStr("")}

PageInputs == {JInt(n) : n \in (-1)..MaxPage} \cup {JStr("2"), JStr("x"), None}
PageSizeInputs ==
    {JInt(n) : n \in ((-1)..MaxPageSize) \cup {max_results, max_results + 1}}
        \cup {JStr("x")}

\* every mapping from a subset of the keys to the values allowed for each key
Mappings(allowed) ==
    UNION {{d \in [K -> UNION {allowed[k] : k \in K}] : \A k \in K : d[k] \in allowed[k]}
            : K \in SUBSET DOMAIN allowed}

CreateData ==
    Mappings([project |-> {JStr("PRJ")}, summary |-> {JStr("s")},
              description |-> {JStr("d")},
              issue_type |-> {JStr("Task"), JStr("Subtask")},
              parent_issue |-> {JStr("PRJ-1"), JStr("")}])
FullCreateData == [project |-> JStr("PRJ"), summary |-> JStr("s"), description |-> JStr("d")]
KeyData == Mappings([issue_key |-> {JStr("PRJ-1"), JStr("")}])
UpdateData ==
    Mappings([issue_key |-> {JStr("PRJ-1")}, summary |-> {JStr("s")},
              description |-> {JStr("d")}, status |-> StatusInputs])
SearchData ==
    Mappings([search_text |-> {JStr("bug")}, title_only |-> {JBool(TRUE)},
              page |-> PageInputs, page_size |-> PageSizeInputs])
EpicData ==
    Mappings([epic_name |-> EpicNameInputs, page |-> PageInputs,
              page_size |-> PageSizeInputs])
MyIssuesData ==
    Mappings([status |-> {JStr("Open")}, sort_order |-> {JStr("asc"), JInt(7)},
              page |-> PageInputs, page_size |-> PageSizeInputs])

DataFor(command) ==
    CASE command = "create_issue" -> CreateData
      [] command = "get_issue" -> KeyData
      [] command = "update_issue" -> UpdateData
      [] command = "search_issues" -> SearchData
      [] command = "get_epic_with_subtasks" -> EpicData
      [] command = "get_my_issues" -> MyIssuesData
      [] command = "get_transitions" -> KeyData
      [] OTHER -> {<<>>}

\* decoded JSON objects: with a command (known or not), or without one
Messages ==
    UNION {{[command |-> JStr(c), data |-> d] : d \in DataFor(c)} : c \in Commands} \cup
    {[command |-> JStr("bogus"), data |-> d] : d \in {<<>>, FullCreateData}} \cup
    {[command |-> JStr(""), data |-> <<>>], [data |-> <<>>], [data |-> FullCreateData]}

\* request bodies: a JSON object, valid JSON that is no object, text that is
\* no JSON, bytes that do not decode
Bodies ==
    {[kind |-> "object", json |-> m] : m \in Messages} \cup
    {[kind |-> "array"], [kind |-> "malformed"], [kind |-> "undecodable"]}

ContentTypes == {"application/json", "text/plain"}

(***************************************************************************)
(* What the external API answers.                                          *)
(***************************************************************************)
TransitionIds == <<"11", "21", "31", "41">>

\* the lists jira.transitions(issue) can return
TransitionLists ==
    UNION {{[i \in 1..n |-> [id |-> JStr(TransitionIds[i]), to |-> [name |-> f[i]]]]
                : f \in [1..n -> StatusNames]} : n \in 0..MaxTransitions}

\* the lists the epic lookup can return: at most maxResults=5 epics
EpicLists ==
    UNION {{[i \in 1..n |-> [key |-> i, fields |-> [summary |-> f[i]]]]
                : f \in [1..n -> EpicSummaries]} : n \in 0..Min(MaxEpics, EpicLookupLimit)}

Totals == 0..MaxTotal
CallDurations == {CallFast, CallSlow}
Outcomes == {"ok", "JIRAError"}

(***************************************************************************)
(* State.                                                                  *)
(***************************************************************************)
VARIABLES
    pc,           \* where the handling of the current request stands
    request,      \* the request being handled: content type and body
    envelope,     \* what handle_mcp_message returned, NoEnvelope before
    response,     \* the HTTP response of handle_request, NoResponse before
    calls,        \* the external API calls made for the current request, in order
    tracker,      \* the external tracker: issues created, the issue's status, edits
    elapsed,      \* seconds spent in external calls since wait_for started
    served,       \* requests answered so far
    page,         \* handler local: the clamped page
    page_size,    \* handler local: the clamped page_size
    transitions,  \* handler local: what jira.transitions(issue) returned
    epics,        \* handler local: what the epic lookup returned
    epic,         \* handler local: the epic selected, 0 before
    other         \* the request of a second client: not sent, waiting or answered

vars == <<pc, request, envelope, response, calls, tracker, elapsed, served,
          page, page_size, transitions, epics, epic, other>>

locals == <<page, page_size, transitions, epics, epic>>

Init ==
    /\ pc = "idle"
    /\ request = [content_type |-> "application/json", body |-> [kind |-> "malformed"]]
    /\ envelope = NoEnvelope
    /\ response = NoResponse
    /\ calls = <<>>
    /\ tracker = [created |-> 0, transitioned |-> 0, updated |-> 0, status |-> "Open"]
    /\ elapsed = 0
    /\ served = 0
    /\ page = 0
    /\ page_size = 0
    /\ transitions = <<>>
    /\ epics = <<>>
    /\ epic = 0
    /\ other = [state |-> "none"]

(***************************************************************************)
(* Accessors of the current request.                                       *)
(***************************************************************************)
Message == request.body.json
Data == Get(Message, "data", <<>>)
Command == Get(Message, "command", None)
IsObject == request.body.kind = "object"

(***************************************************************************)
(* The pure parts of the handlers.                                         *)
(***************************************************************************)
\* clamp_page without its lower bound
clamp_page_unclamped(data) ==
    py_int(Get(data, "page", JInt(DefaultPage)))

\* page = max(1, int(data.get('page', 1)))
clamp_page(data) ==
    LET r == py_int(Get(data, "page", JInt(DefaultPage)))
    IN  IF r.ok THEN [ok |-> TRUE, val |-> Max(1, r.val)] ELSE r

\* page_size = min(self.config.max_results, int(data.get('page_size', 20)))
clamp_page_size(data) ==
    LET r == py_int(Get(data, "page_size", JInt(DefaultPageSize)))
    IN  IF r.ok THEN [ok |-> TRUE, val |-> Min(max_results, r.val)] ELSE r

\* start_at = (page - 1) * page_size
start_at(p, ps) == (p - 1) * ps

\* (total + page_size - 1) // page_size, Python's floor division
total_pages(total, ps) == (total + ps - 1) \div ps

pagination(total, p, ps) ==
    [total |-> total, page |-> p, page_size |-> ps, total_pages |-> total_pages(total, ps)]

\* issue_dict of _create_issue
issue_dict(data) ==
    LET base == [project |-> [key |-> data["project"]],
                 summary |-> data["summary"],
                 description |-> data["description"],
                 issuetype |-> [name |-> Get(data, "issue_type", JStr("Task"))]]
    IN  IF PyEq(Get(data, "issue_type", None), JStr("Subtask"))
           /\ Truthy(Get(data, "parent_issue", None))
        THEN [k \in DOMAIN base \cup {"parent"} |->
                 IF k = "parent" THEN [key |-> data["parent_issue"]] ELSE base[k]]
        ELSE base

\* update_fields of _update_issue
update_fields(data) ==
    [k \in {"summary", "description"} \cap DOMAIN data |-> data[k]]

\* the loop of _update_issue over the fetched transitions, from index i on:
\* the id of the first transition whose destination is the target, and the
\* destination names collected until then
RECURSIVE find_transition(_, _, _, _)
find_transition(ts, i, target_status, available_transitions) ==
    IF i > Len(ts)
    THEN [transition_id |-> None, available_transitions |-> available_transitions]
    ELSE LET seen == Append(available_transitions, ts[i].to.name)
         IN  IF lower(ts[i].to.name) = target_status
             THEN [transition_id |-> ts[i].id, available_transitions |-> seen]
             ELSE find_transition(ts, i + 1, target_status, seen)

\* the loop leaving at its first transition, matching or not
match_transition_first(ts, status) ==
    IF ts = <<>> THEN [transition_id |-> None, available_transitions |-> <<>>]
    ELSE [transition_id |-> ts[1].id, available_transitions |-> <<ts[1].to.name>>]

\* the match of the requested status among the fetched transitions
match_transition(ts, status) == find_transition(ts, 1, lower(status.val), <<>>)

\* select_epic without the preference for the exact match
select_epic_first(es, epic_name) == es[1]

\* next((e for e in epics if e.fields.summary.lower() == epic_name.lower()), epics[0])
select_epic(es, epic_name) ==
    LET exact == {i \in 1..Len(es) : lower(es[i].fields.summary) = lower(epic_name)}
    IN  IF exact # {}
        THEN es[CHOOSE i \in exact : \A j \in exact : i <= j]
        ELSE es[1]

(***************************************************************************)
(* handle_mcp_message and the handlers up to their first external call:    *)
(* the envelope returned at once, or the call site reached.                *)
(***************************************************************************)
Returned(env) == [pc |-> "returned", envelope |-> env, page |-> 0, page_size |-> 0]
Reached(site, p, ps) == [pc |-> site, envelope |-> NoEnvelope, page |-> p, page_size |-> ps]

_create_issue(data) ==
    IF ~ \A k \in {"project", "summary", "description"} : k \in DOMAIN data
    THEN Returned(Error(Text("Missing required fields")))
    ELSE Reached("jira.create_issue", 0, 0)

\* _get_issue, _update_issue and _get_transitions start alike
_issue_key(data) ==
    IF ~ Truthy(Get(data, "issue_key", None))
    THEN Returned(Error(Text("Missing issue key")))
    ELSE Reached("jira.issue", 0, 0)

\* _search_issues and _get_epic_with_subtasks convert page and page_size
\* outside their try block: the exception reaches handle_mcp_message
_paged(data, required, missing, site) ==
    LET p == clamp_page(data)
        ps == clamp_page_size(data)
    IN  IF ~ p.ok THEN Returned(Raise(p.exc))
        ELSE IF ~ ps.ok THEN Returned(Raise(ps.exc))
        ELSE IF ~ Truthy(Get(data, required, None)) THEN Returned(Error(Text(missing)))
        ELSE Reached(site, p.val, ps.val)

_search_issues(data) ==
    _paged(data, "search_text", "Missing search text", "jira.search_issues")

_get_epic_with_subtasks(data) ==
    _paged(data, "epic_name", "Missing epic name", "jira.search_issues(epic_jql)")

\* the text of the except clauses of the three search handlers
search_error(exc) ==
    CASE exc = "JIRAError" -> Text("JIRA API error")
      [] exc = "ValueError" -> Text("Invalid input")
      [] OTHER -> Text("An unexpected error occurred")

\* _get_my_issues converts inside its try block
_get_my_issues(data) ==
    LET p == clamp_page(data)
        ps == clamp_page_size(data)
    IN  IF ~ p.ok THEN Returned(Error(search_error(p.exc)))
        ELSE IF ~ ps.ok THEN Returned(Error(search_error(ps.exc)))
        ELSE IF Get(data, "sort_order", JStr("DESC")).type # "str"
        THEN Returned(Error(search_error("AttributeError")))
        ELSE Reached("jira.search_issues", p.val, ps.val)

\* dispatch with every unrecognized command handled as create_issue
dispatch_default_create(body) ==
    IF body.kind # "object" THEN Returned(Raise("AttributeError"))
    ELSE
    LET command == Get(body.json, "command", None)
        data == Get(body.json, "data", <<>>)
    IN  CASE PyEq(command, JStr("get_issue")) -> _issue_key(data)
          [] PyEq(command, JStr("update_issue")) -> _issue_key(data)
          [] PyEq(command, JStr("search_issues")) -> _search_issues(data)
          [] PyEq(command, JStr("get_epic_with_subtasks")) -> _get_epic_with_subtasks(data)
          [] PyEq(command, JStr("get_my_issues")) -> _get_my_issues(data)
          [] PyEq(command, JStr("get_transitions")) -> _issue_key(data)
          [] OTHER -> _create_issue(data)

\* the body of the try block of handle_mcp_message, lines 66-85
dispatch(body) ==
    IF body.kind # "object" THEN Returned(Raise("AttributeError"))
    ELSE
    LET command == Get(body.json, "command", None)
        data == Get(body.json, "data", <<>>)
    IN  IF ~ Truthy(command) THEN Returned(Error(Text("No command specified")))
        ELSE CASE command.val = "create_issue" -> _create_issue(data)
               [] command.val = "get_issue" -> _issue_key(data)
               [] command.val = "update_issue" -> _issue_key(data)
               [] command.val = "search_issues" -> _search_issues(data)
               [] command.val = "get_epic_with_subtasks" -> _get_epic_with_subtasks(data)
               [] command.val = "get_my_issues" -> _get_my_issues(data)
               [] command.val = "get_transitions" -> _issue_key(data)
               [] OTHER -> Returned(Error([text |-> "Unknown command", command |-> command.val]))

handle_mcp_message(body) ==
    LET r == dispatch(body) IN [r EXCEPT !.envelope = except_Exception(@)]

(***************************************************************************)
(* The HTTP boundary.                                                      *)
(***************************************************************************)
\* the state of a server that is handling no request
Idle ==
    /\ pc' = "idle"
    /\ request' = [content_type |-> "application/json", body |-> [kind |-> "malformed"]]
    /\ envelope' = NoEnvelope
    /\ response' = NoResponse
    /\ calls' = <<>>
    /\ elapsed' = 0
    /\ page' = 0 /\ page_size' = 0 /\ transitions' = <<>> /\ epics' = <<>> /\ epic' = 0

\* a client posts a request to /mcp
Arrive ==
    /\ pc = "idle"
    /\ served < MaxRequests
    /\ \E ct \in ContentTypes, body \in Bodies :
          request' = [content_type |-> ct, body |-> body]
    /\ pc' = "validate_request"
    /\ UNCHANGED <<envelope, response, calls, tracker, elapsed, served, other, locals>>

\* validate_request without its check of the content type
validate_request_any_type(req) ==
    IF req.body.kind = "undecodable" THEN [raised |-> TRUE]
    ELSE IF req.body.kind = "malformed"
    THEN [raised |-> FALSE, is_valid |-> FALSE, error_message |-> Text("Invalid JSON payload")]
    ELSE [raised |-> FALSE, is_valid |-> TRUE]

\* validate_request: (is_valid, error_message), or the exception request.json() raises
validate_request(req) ==
    IF req.content_type # "application/json"
    THEN [raised |-> FALSE, is_valid |-> FALSE,
          error_message |-> Text("Content-Type must be application/json")]
    ELSE IF req.body.kind = "undecodable" THEN [raised |-> TRUE]
    ELSE IF req.body.kind = "malformed"
    THEN [raised |-> FALSE, is_valid |-> FALSE, error_message |-> Text("Invalid JSON payload")]
    ELSE [raised |-> FALSE, is_valid |-> TRUE]

Answer(http, body) ==
    /\ response' = [http |-> http, body |-> body]
    /\ pc' = "responded"

\* handle_request up to the call of handle_mcp_message
ValidateRequest ==
    /\ pc = "validate_request"
    /\ LET v == validate_request(request)
       IN  IF v.raised
           THEN Answer(500, Error(Text("An unexpected error occurred")))
           ELSE IF ~ v.is_valid
           THEN Answer(400, Error(v.error_message))
           ELSE /\ pc' = "handle_mcp_message"
                /\ UNCHANGED response
    /\ UNCHANGED <<request, envelope, calls, tracker, elapsed, served, other, locals>>

\* handle_mcp_message runs the handler up to its first external call
Dispatch ==
    /\ pc = "handle_mcp_message"
    /\ LET r == handle_mcp_message(request.body)
       IN  /\ pc' = r.pc
           /\ envelope' = r.envelope
           /\ page' = r.page
           /\ page_size' = r.page_size
    /\ UNCHANGED <<request, response, calls, tracker, elapsed, served, other, transitions,
                   epics, epic>>

\* asyncio.wait_for(coro, timeout): TimeoutError when the timer callback runs
\* while the task is still pending; the event loop runs callbacks only while
\* the task is suspended, and no handler suspends (the jira client blocks)
wait_for(pending, seconds) ==
    IF pending /\ seconds >= RequestTimeout THEN "TimeoutError" ELSE "result"

\* handle_request from the return of wait_for on
Respond ==
    /\ pc = "returned"
    /\ IF wait_for(envelope = NoEnvelope, elapsed) = "TimeoutError"
       THEN Answer(504, Error(Text("Request timed out")))
       ELSE IF envelope.status = "raised"
       THEN Answer(500, Error(Text("An unexpected error occurred")))
       ELSE Answer(200, envelope)
    /\ UNCHANGED <<request, envelope, calls, tracker, elapsed, served, other, locals>>

\* the response is sent; nothing of the request outlives it
Finish ==
    /\ pc = "responded"
    /\ Idle
    /\ served' = served + 1
    /\ UNCHANGED <<tracker, other>>

(***************************************************************************)
(* The external calls: each blocks for some seconds, then returns or       *)
(* raises JIRAError, and the handler runs on to its next call or its       *)
(* return.                                                                 *)
(***************************************************************************)
Return(env) ==
    /\ pc' = "returned"
    /\ envelope' = env

Goto(site) ==
    /\ pc' = site
    /\ UNCHANGED envelope

Call(site, op, args, outcome) ==
    /\ pc = site
    /\ calls' = Append(calls, [op |-> op, args |-> args, outcome |-> outcome])
    /\ \E seconds \in CallDurations : elapsed' = elapsed + seconds

\* an exception of a handler that has no try block of its own
Fail(exc) == Return(except_Exception(Raise(exc)))

\* the confirmation of _update_issue carried as data
updated_as_data(data) == Success([message |-> Text("Updated issue")])

\* the confirmation _update_issue returns, line 177
updated(data) == [status |-> "success", message |-> Text("Updated issue")]

\* self.jira.create_issue(fields=issue_dict), lines 108-116
JiraCreateIssue ==
    /\ \E outcome \in Outcomes :
          /\ Call("jira.create_issue", "create_issue", [fields |-> issue_dict(Data)], outcome)
          /\ IF outcome = "ok"
             THEN /\ tracker' = [tracker EXCEPT !.created = @ + 1]
                  /\ Return(Success([issue_key |-> tracker.created + 1]))
             ELSE /\ Fail(outcome)
                  /\ UNCHANGED tracker
    /\ UNCHANGED <<request, response, served, other, locals>>

\* what _update_issue does once the issue, and the transition if any, is done
update_rest(data) ==
    IF DOMAIN update_fields(data) # {}
    THEN Goto("issue.update")
    ELSE Return(updated(data))

\* self.jira.issue(issue_key) of _get_issue, _update_issue and _get_transitions
JiraIssue ==
    /\ \E outcome \in Outcomes :
          /\ Call("jira.issue", "issue", [key |-> Data["issue_key"]], outcome)
          /\ IF outcome # "ok" THEN Fail(outcome)
             ELSE CASE Command.val = "get_issue" ->
                         Return(Success([issue_key |-> Data["issue_key"],
                                         status |-> tracker.status]))
                    [] Command.val = "update_issue" ->
                         IF "status" \in DOMAIN Data THEN Goto("jira.transitions")
                         ELSE update_rest(Data)
                    [] Command.val = "get_transitions" -> Goto("jira.transitions")
    /\ UNCHANGED <<request, response, tracker, served, other, locals>>

\* the data of _get_transitions
transitions_data(data, current_status, ts) ==
    [issue_key |-> data["issue_key"],
     current_status |-> current_status,
     possible_next_statuses |-> {ts[i].to.name : i \in 1..Len(ts)},
     details |-> [i \in 1..Len(ts) |->
                    [id |-> ts[i].id, from_status |-> current_status,
                     to_status |-> ts[i].to.name]]]

\* update_status without the return of its error branch
update_status_fallthrough(data, ts) ==
    IF data["status"].type # "str" THEN Fail("AttributeError")
    ELSE LET m == match_transition(ts, data["status"])
         IN  IF Truthy(m.transition_id) THEN Goto("jira.transition_issue")
             ELSE update_rest(data)

\* _update_issue from the fetched transitions to the transition call or the error
update_status(data, ts) ==
    IF data["status"].type # "str" THEN Fail("AttributeError")
    ELSE LET m == match_transition(ts, data["status"])
         IN  IF Truthy(m.transition_id) THEN Goto("jira.transition_issue")
             ELSE Return(Error([text |-> "No transition found to status",
                                status |-> data["status"].val,
                                available |-> m.available_transitions]))

\* self.jira.transitions(issue) of _update_issue and _get_transitions
JiraTransitions ==
    /\ \E outcome \in Outcomes :
          /\ Call("jira.transitions", "transitions", [key |-> Data["issue_key"]], outcome)
          /\ IF outcome # "ok"
             THEN /\ Fail(outcome)
                  /\ UNCHANGED transitions
             ELSE \E ts \in TransitionLists :
                     /\ transitions' = ts
                     /\ IF Command.val = "get_transitions"
                        THEN Return(Success(transitions_data(Data, tracker.status, ts)))
                        ELSE update_status(Data, ts)
    /\ UNCHANGED <<request, response, tracker, served, other, page, page_size, epics, epic>>

\* the destination of the transition with the given id
destination(ts, id) ==
    LET i == CHOOSE i \in 1..Len(ts) : ts[i].id = id IN ts[i].to.name

\* self.jira.transition_issue(issue, transition_id), line 165
JiraTransitionIssue ==
    /\ \E outcome \in Outcomes :
          LET id == match_transition(transitions, Data["status"]).transition_id
          IN  /\ Call("jira.transition_issue", "transition_issue", [id |-> id], outcome)
              /\ IF outcome = "ok"
                 THEN /\ tracker' = [tracker EXCEPT !.transitioned = @ + 1,
                                                    !.status = destination(transitions, id)]
                      /\ update_rest(Data)
                 ELSE /\ Fail(outcome)
                      /\ UNCHANGED tracker
    /\ UNCHANGED <<request, response, served, other, locals>>

\* issue.update(fields=update_fields), lines 174-177
IssueUpdate ==
    /\ \E outcome \in Outcomes :
          /\ Call("issue.update", "update", [fields |-> update_fields(Data)], outcome)
          /\ IF outcome = "ok"
             THEN /\ tracker' = [tracker EXCEPT !.updated = @ + 1]
                  /\ Return(updated(Data))
             ELSE /\ Fail(outcome)
                  /\ UNCHANGED tracker
    /\ UNCHANGED <<request, response, served, other, locals>>

\* self.jira.search_issues(epic_jql, maxResults=5) and the choice of the epic
JiraSearchEpics ==
    /\ \E outcome \in Outcomes :
          /\ Call("jira.search_issues(epic_jql)", "search_issues",
                  [jql |-> [issuetype |-> "Epic", summary |-> Data["epic_name"]],
                   maxResults |-> EpicLookupLimit], outcome)
          /\ IF outcome # "ok"
             THEN /\ Return(Error(search_error(outcome)))
                  /\ UNCHANGED <<epics, epic>>
             ELSE \E es \in EpicLists :
                     /\ epics' = es
                     /\ IF es = <<>>
                        THEN /\ Return(Error(Text("No epic found with name containing")))
                             /\ UNCHANGED epic
                        ELSE /\ epic' = select_epic(es, Data["epic_name"].val).key
                             /\ Goto("jira.search_issues")
    /\ UNCHANGED <<request, response, tracker, served, other, page, page_size, transitions>>

\* the query of the paginated search of each of the three handlers
search_jql(command, data, e) ==
    CASE command = "search_issues" ->
            [text |-> data["search_text"],
             title_only |-> Truthy(Get(data, "title_only", JBool(FALSE)))]
      [] command = "get_epic_with_subtasks" -> [epic_link |-> e]
      [] command = "get_my_issues" ->
            [assignee |-> "currentUser()", status |-> Get(data, "status", None)]

\* the data of a search, or the ZeroDivisionError of its total_pages
search_result(command, e, total, p, ps) ==
    IF ps = 0 THEN Error(search_error("ZeroDivisionError"))
    ELSE IF command = "get_epic_with_subtasks"
    THEN Success([epic |-> [key |-> e], subtasks |-> [pagination |-> pagination(total, p, ps)]])
    ELSE Success([pagination |-> pagination(total, p, ps)])

\* self.jira.search_issues(jql, startAt=start_at, maxResults=page_size, ...)
JiraSearchIssues ==
    /\ \E outcome \in Outcomes :
          /\ Call("jira.search_issues", "search_issues",
                  [jql |-> search_jql(Command.val, Data, epic),
                   startAt |-> start_at(page, page_size), maxResults |-> page_size], outcome)
          /\ IF outcome # "ok" THEN Return(Error(search_error(outcome)))
             ELSE \E total \in Totals :
                     Return(search_result(Command.val, epic, total, page, page_size))
    /\ UNCHANGED <<request, response, tracker, served, other, locals>>

Next ==
    \/ Arrive
    \/ ValidateRequest
    \/ Dispatch
    \/ JiraCreateIssue
    \/ JiraIssue
    \/ JiraTransitions
    \/ JiraTransitionIssue
    \/ IssueUpdate
    \/ JiraSearchEpics
    \/ JiraSearchIssues
    \/ Respond
    \/ Finish

Spec == Init /\ [][Next]_vars

(***************************************************************************)
(* A second client.  Its request waits in the server until the event loop  *)
(* runs its handler.  The loop is one thread: it runs nothing else while   *)
(* the handler of the first request is inside a call of the jira client,   *)
(* which is called without await and returns only with its answer.         *)
(***************************************************************************)
CallSites ==
    {"jira.create_issue", "jira.issue", "jira.transitions", "jira.transition_issue",
     "issue.update", "jira.search_issues(epic_jql)", "jira.search_issues"}

\* the first request's handler is inside an external call
InExternalCall == pc \in CallSites

\* a request that needs no external call: its command is unknown
OtherRequest ==
    [content_type |-> "application/json",
     body |-> [kind |-> "object", json |-> [command |-> JStr("bogus"), data |-> <<>>]]]

\* handle_request for a request whose handler makes no external call
handle_request(req) ==
    LET v == validate_request(req)
        r == handle_mcp_message(req.body)
    IN  IF v.raised THEN [http |-> 500, body |-> Error(Text("An unexpected error occurred"))]
        ELSE IF ~ v.is_valid THEN [http |-> 400, body |-> Error(v.error_message)]
        ELSE [http |-> 200, body |-> r.envelope]

\* the second client posts its request while the first is being handled
OtherArrives ==
    /\ other.state = "none"
    /\ pc # "idle"
    /\ other' = [state |-> "waiting", request |-> OtherRequest]
    /\ UNCHANGED <<pc, request, envelope, response, calls, tracker, elapsed, served, locals>>

\* the event loop accepts, dispatches and answers the second request
ServeOther ==
    /\ other.state = "waiting"
    /\ ~ InExternalCall
    /\ other' = [state |-> "answered", response |-> handle_request(other.request)]
    /\ UNCHANGED <<pc, request, envelope, response, calls, tracker, elapsed, served, locals>>

NextLoop ==
    \/ Next
    \/ OtherArrives
    \/ ServeOther

SpecLoop == Init /\ [][NextLoop]_vars

(***************************************************************************)
(* Vocabulary of the properties.                                           *)
(***************************************************************************)
\* the command of the request being handled, "" when it names none
CommandName == IF IsObject /\ Command.type = "str" THEN Command.val ELSE ""

\* handle_mcp_message has returned
Handled == pc \in {"returned", "responded"} /\ envelope # NoEnvelope

MutatingOps == {"create_issue", "transition_issue", "update"}
MutatingCalls == {i \in 1..Len(calls) : calls[i].op \in MutatingOps}
SearchCommands == {"search_issues", "get_epic_with_subtasks", "get_my_issues"}

\* the paginated search call of the current request, if made
PagedCalls == {i \in 1..Len(calls) : "startAt" \in DOMAIN calls[i].args}

\* the pagination block of a success envelope of a search command
PaginationOf(env) ==
    IF "pagination" \in DOMAIN env.data THEN env.data.pagination
    ELSE env.data.subtasks.pagination

Abs(n) == IF n < 0 THEN -n ELSE n

\* ceil(a / b) for b # 0: the least integer not below the quotient
Ceil(a, b) ==
    CHOOSE n \in (-(Abs(a) + 1))..(Abs(a) + 1) :
        IF b > 0 THEN n * b >= a /\ (n - 1) * b < a
                 ELSE n * b <= a /\ (n - 1) * b > a

(***************************************************************************)
(* C1.  update_issue with a status that matches, case-insensitively, none  *)
(* of the destination names of the fetched transitions returns an error    *)
(* envelope whose message lists exactly those destination names, and makes *)
(* no mutating call (no transition_issue, no issue.update), also when      *)
(* summary or description are supplied.                                    *)
(***************************************************************************)
TransitionsFetched ==
    \E i \in 1..Len(calls) : calls[i].op = "transitions" /\ calls[i].outcome = "ok"

DestinationNames == {transitions[i].to.name : i \in 1..Len(transitions)}

C1_Unmatched ==
    /\ CommandName = "update_issue"
    /\ TransitionsFetched
    /\ "status" \in DOMAIN Data
    /\ Data["status"].type = "str"
    /\ \A n \in DestinationNames : lower(n) # lower(Data["status"].val)

C1_UnmatchedStatusIsError ==
    C1_Unmatched =>
        /\ Handled
        /\ envelope.status = "error"
        /\ DOMAIN envelope = {"status", "message"}
        /\ envelope.message.text = "No transition found to status"
        /\ {envelope.message.available[i] : i \in DOMAIN envelope.message.available}
              = DestinationNames
        /\ MutatingCalls = {}

C1_Witness ==
    /\ pc = "responded"
    /\ C1_Unmatched
    /\ DOMAIN update_fields(Data) = {"summary", "description"}
    /\ Cardinality(DestinationNames) = 2
    /\ response.body.status = "error"

(***************************************************************************)
(* C2.  A request whose handling takes longer than the 30-second timeout   *)
(* is answered with HTTP 504 and an error envelope, never with a success   *)
(* envelope.                                                               *)
(***************************************************************************)
C2_TimeoutAnswers504 ==
    (pc = "responded" /\ elapsed > RequestTimeout) =>
        /\ response.http = 504
        /\ response.body.status = "error"

(***************************************************************************)
(* C3.  Every success response of search_issues, get_epic_with_subtasks    *)
(* and get_my_issues, for every requested page_size (above the maximum,    *)
(* zero and negative included) and every total, has                        *)
(* total_pages = ceil(total / page_size) and page_size <= max_results.     *)
(***************************************************************************)
C3_PaginationBlock ==
    (Handled /\ CommandName \in SearchCommands /\ envelope.status = "success") =>
        LET b == PaginationOf(envelope)
        IN  /\ b.total_pages = Ceil(b.total, b.page_size)
            /\ b.page_size <= max_results

(***************************************************************************)
(* C4.  In the three search commands page and page_size are clamped before *)
(* the paginated search: a requested page of 0 or below gives the offset   *)
(* and the reported page of page 1, a requested page_size above the        *)
(* maximum is sent and reported as the maximum, and the offset sent is     *)
(* (page - 1) * page_size of the clamped values.                           *)
(***************************************************************************)
RequestedPage == py_int(Get(Data, "page", JInt(DefaultPage))).val
RequestedPageSize == py_int(Get(Data, "page_size", JInt(DefaultPageSize))).val

C4_Clamped ==
    (CommandName \in SearchCommands /\ PagedCalls # {}) =>
        LET p == IF RequestedPage <= 0 THEN 1 ELSE RequestedPage
            ps == IF RequestedPageSize > max_results THEN max_results
                  ELSE RequestedPageSize
        IN  \A i \in PagedCalls :
               /\ calls[i].args.startAt = (p - 1) * ps
               /\ calls[i].args.maxResults = ps
               /\ RequestedPage <= 0 => calls[i].args.startAt = 0
               /\ (Handled /\ envelope.status = "success") =>
                     /\ PaginationOf(envelope).page = p
                     /\ PaginationOf(envelope).page_size = ps

C4_Witness ==
    /\ pc = "responded"
    /\ CommandName = "get_my_issues"
    /\ PagedCalls # {}
    /\ RequestedPage < 0
    /\ RequestedPageSize > max_results
    /\ response.body.status = "success"

(***************************************************************************)
(* C5.  A request whose Content-Type is not application/json is answered   *)
(* with HTTP 400 and an error envelope, and no external API call is made   *)
(* at any point of its handling.                                           *)
(***************************************************************************)
C5_NonJsonRejected ==
    (pc # "idle" /\ request.content_type # "application/json") =>
        /\ calls = <<>>
        /\ pc \in {"validate_request", "responded"}
        /\ pc = "responded" =>
              /\ response.http = 400
              /\ response.body.status = "error"
              /\ "message" \in DOMAIN response.body

C5_Witness ==
    /\ pc = "responded"
    /\ request.content_type = "text/plain"
    /\ CommandName = "create_issue"
    /\ Data = FullCreateData
    /\ response.http = 400

(***************************************************************************)
(* C6.  create_issue returns an error envelope and creates no issue        *)
(* whenever a required field is missing: project, summary or description,  *)
(* or parent_issue when issue_type is "Subtask".                           *)
(***************************************************************************)
C6_RequiredFieldMissing ==
    /\ CommandName = "create_issue"
    /\ \/ \E k \in {"project", "summary", "description"} : k \notin DOMAIN Data
       \/ /\ PyEq(Get(Data, "issue_type", None), JStr("Subtask"))
          /\ "parent_issue" \notin DOMAIN Data

C6_MissingFieldCreatesNothing ==
    C6_RequiredFieldMissing =>
        /\ \A i \in 1..Len(calls) : calls[i].op # "create_issue"
        /\ Handled => envelope.status = "error"

(***************************************************************************)
(* C7.  get_epic_with_subtasks selects, among the epics the lookup         *)
(* returned, one whose summary equals epic_name case-insensitively         *)
(* whenever there is one, whatever its position; only when there is none   *)
(* it selects the first; the subtask query is issued for the key of the    *)
(* selected epic.                                                          *)
(***************************************************************************)
ExactEpics ==
    {i \in 1..Len(epics) :
        lower(epics[i].fields.summary) = lower(Data["epic_name"].val)}

C7_ExactMatchPreferred ==
    (CommandName = "get_epic_with_subtasks" /\ epic # 0) =>
        /\ ExactEpics # {} => \E i \in ExactEpics : epics[i].key = epic
        /\ ExactEpics = {} => epic = epics[1].key
        /\ \A i \in PagedCalls : calls[i].args.jql = [epic_link |-> epic]

C7_Witness ==
    /\ pc = "responded"
    /\ CommandName = "get_epic_with_subtasks"
    /\ Get(Data, "epic_name", None) = JStr("alpha")
    /\ Len(epics) = 2
    /\ epics[1].fields.summary = "AlphaTwo"
    /\ epics[2].fields.summary = "ALPHA"
    /\ epic = epics[2].key
    /\ PagedCalls # {}
    /\ response.body.status = "success"

(***************************************************************************)
(* C8.  Whatever the message and whatever the external API does, what      *)
(* handle_mcp_message returns is an envelope: when a call raised or the    *)
(* input was malformed (a body that is no object, a non-numeric page or    *)
(* page_size) its status is "error" and it carries a message; no exception *)
(* leaves the dispatcher, so the response is that envelope.                *)
(***************************************************************************)
FailedCalls == {i \in 1..Len(calls) : calls[i].outcome # "ok"}

BadNumber ==
    /\ CommandName \in SearchCommands
    /\ \/ ~ py_int(Get(Data, "page", JInt(DefaultPage))).ok
       \/ ~ py_int(Get(Data, "page_size", JInt(DefaultPageSize))).ok

C8_FailuresBecomeErrorEnvelopes ==
    Handled =>
        /\ envelope.status \in {"success", "error"}
        /\ envelope.status = "error" => "message" \in DOMAIN envelope
        /\ (FailedCalls # {} \/ BadNumber \/ ~ IsObject) => envelope.status = "error"
        /\ pc = "responded" => response = [http |-> 200, body |-> envelope]

C8_Witness ==
    /\ pc = "responded"
    /\ CommandName = "search_issues"
    /\ "search_text" \in DOMAIN Data
    /\ Get(Data, "page", None) = JStr("x")
    /\ response.http = 200
    /\ response.body.status = "error"

(***************************************************************************)
(* C9.  Only create_issue and update_issue make a mutating call            *)
(* (create_issue, transition_issue, issue.update) or change the tracker;   *)
(* the five other commands and every message with an unknown or missing    *)
(* command leave the tracker as it is, and an unknown or missing command   *)
(* makes no external call at all and returns an error envelope.            *)
(***************************************************************************)
Mutators == {"create_issue", "update_issue"}

C9_ReadOnly ==
    pc # "idle" =>
        /\ CommandName \notin Mutators => MutatingCalls = {}
        /\ CommandName \notin Commands =>
              /\ calls = <<>>
              /\ Handled => envelope.status = "error" /\ "message" \in DOMAIN envelope

C9_OnlyMutatorsMutate ==
    /\ [] C9_ReadOnly
    /\ [][tracker' # tracker => CommandName \in Mutators]_vars

C9_Witness ==
    /\ pc = "responded"
    /\ CommandName = "bogus"
    /\ Data = FullCreateData
    /\ calls = <<>>
    /\ response.body.status = "error"

(***************************************************************************)
(* C10.  Every envelope returned for one of the seven commands has exactly *)
(* one of data and message: an error envelope carries message and no data; *)
(* a success envelope carries data and no message, except the success      *)
(* envelope of update_issue, which carries its confirmation as message.    *)
(***************************************************************************)
C10_OneOfDataMessage ==
    (Handled /\ CommandName \in Commands) =>
        /\ envelope.status \in {"success", "error"}
        /\ envelope.status = "error" => DOMAIN envelope = {"status", "message"}
        /\ (envelope.status = "success" /\ CommandName # "update_issue") =>
              DOMAIN envelope = {"status", "data"}
        /\ (envelope.status = "success" /\ CommandName = "update_issue") =>
              DOMAIN envelope = {"status", "message"}

C10_Witness ==
    /\ pc = "responded"
    /\ CommandName = "update_issue"
    /\ Len(calls) = 3
    /\ response.body.status = "success"
    /\ DOMAIN response.body = {"status", "message"}

\* C10 as stated: success carries data, error carries message, nothing else
C10_DataOnSuccess ==
    (Handled /\ CommandName \in Commands) =>
        /\ envelope.status = "success" => DOMAIN envelope = {"status", "data"}
        /\ envelope.status = "error" => DOMAIN envelope = {"status", "message"}

(***************************************************************************)
(* C12.  Every request-validation error on POST /mcp (a bad content type,  *)
(* bad JSON, or a command whose required field is missing, such as         *)
(* create_issue without summary or get_issue without issue_key) is         *)
(* answered with an error envelope and HTTP 400.                           *)
(***************************************************************************)
RequiredFieldMissing ==
    \/ /\ CommandName = "create_issue"
       /\ \E k \in {"project", "summary", "description"} : k \notin DOMAIN Data
    \/ /\ CommandName \in {"get_issue", "update_issue", "get_transitions"}
       /\ "issue_key" \notin DOMAIN Data
    \/ CommandName = "search_issues" /\ "search_text" \notin DOMAIN Data
    \/ CommandName = "get_epic_with_subtasks" /\ "epic_name" \notin DOMAIN Data

ValidationError ==
    \/ request.content_type # "application/json"
    \/ request.body.kind = "malformed"
    \/ RequiredFieldMissing

C12_ValidationErrorsAnswer400 ==
    (pc = "responded" /\ ValidationError) =>
        /\ response.http = 400
        /\ response.body.status = "error"

(***************************************************************************)
(* C13.  update_issue changes the status in two ordered steps:             *)
(* transition_issue is called only after the transitions were fetched, at  *)
(* most once per request, and only with the id of a fetched transition     *)
(* whose destination name equals the requested status case-insensitively;  *)
(* when summary or description are supplied too, the fields are updated    *)
(* only after the transition was applied.                                  *)
(***************************************************************************)
CallsOf(op) == {i \in 1..Len(calls) : calls[i].op = op}

C13_TransitionThenUpdate ==
    CommandName = "update_issue" =>
        /\ Cardinality(CallsOf("transition_issue")) <= 1
        /\ \A i \in CallsOf("transition_issue") :
              /\ \E j \in CallsOf("transitions") : j < i /\ calls[j].outcome = "ok"
              /\ "status" \in DOMAIN Data
              /\ \E t \in 1..Len(transitions) :
                    /\ transitions[t].id = calls[i].args.id
                    /\ lower(transitions[t].to.name) = lower(Data["status"].val)
        /\ \A k \in CallsOf("update") :
              "status" \in DOMAIN Data =>
                  \E i \in CallsOf("transition_issue") : i < k /\ calls[i].outcome = "ok"

C13_Witness ==
    /\ pc = "responded"
    /\ CommandName = "update_issue"
    /\ Get(Data, "status", None) = JStr("done")
    /\ Len(transitions) = 2
    /\ transitions[1].to.name = "Open"
    /\ transitions[2].to.name = "Done"
    /\ Len(calls) = 4
    /\ calls[3].op = "transition_issue"
    /\ calls[3].args.id = transitions[2].id
    /\ calls[4].op = "update"
    /\ response.body.status = "success"

(***************************************************************************)
(* C11.  While the external call of one request's handler is in progress,  *)
(* other requests are unaffected: a second request that arrived during the *)
(* call can be accepted, dispatched and answered before the call returns.  *)
(***************************************************************************)
C11_OthersUnaffected ==
    (InExternalCall /\ other.state = "waiting") => ENABLED ServeOther

====
